---- MODULE Spec2Model ----
(***************************************************************************)
(* Model of jshell.c ("cowrie"): the execution of one command line, from   *)
(* execute_command through execute_external, the launch loop, the file     *)
(* funnels redirect_input / redirect_output and the final waitpid.         *)
(*                                                                         *)
(* A word array is a sequence whose last element is NULL, as in C; the     *)
(* C index i is the TLA+ index i+1.  A `words' pointer is a C index into   *)
(* the array (wbase).  split_words and setup_redirect_output overwrite     *)
(* elements with NULL in place, as the source does.                        *)
(***************************************************************************)
EXTENDS Integers, Sequences, FiniteSets, TLC

\* ------------------------------------------------------------------ bounds

\* Longest command line, in words.
MaxWords == 5
\* Capacity of a pipe, in bytes.
PipeCap == 1
\* Most bytes a stage process writes to its standard output.
MaxOut == 1

\* The longest word array malloc has memory for.
MaxArray == 8

\* Most words in a line that may name a built-in command, and in a line that
\* may hold a glob pattern.
MaxShortWords == 3

\* --------------------------------------------------------------- constants

\* #define NONE / STORE / APPEND
NONE == 0
STORE == 1
APPEND == 2
\* #define MAX_LINE_CHARS
MAX_LINE_CHARS == 1024

\* The terminator of a word array; no word of a line equals it.
NULL == "(null)"

\* Bytes of file and pipe data: the NUL byte, the newline and a letter.
NUL == "NUL"
NL == "NL"
Bytes == {NUL, NL, "x"}

\* The words a line is made of.
Vocabulary == {"|", "<", ">", "p", "q"}

\* The words of the lines that name a built-in command.
BuiltinVocabulary == {"cd", "pwd", "exit", "history", "!", "p", "|", "<", ">"}

\* The words of the lines that hold a glob pattern.
GlobVocabulary == {"p", "p*", "|", "<", ">"}

\* The words of the lines whose pattern matches every file name.
StarVocabulary == {"p", "*", "|", "<", ">"}

\* The words of the lines found in the history file: "L" is a word of
\* MAX_LINE_CHARS - 4 letters, the longest that "p>L" can be typed with.
HistoryVocabulary == {"p", "L", "|", "<", ">"}

\* The characters of a word (strings are atomic for TLC).
CharsOf(w) ==
    CASE w = "|" -> <<"|">>
      [] w = "<" -> <<"<">>
      [] w = ">" -> <<">">>
      [] w = "p" -> <<"p">>
      [] w = "q" -> <<"q">>
      [] w = "cd" -> <<"c", "d">>
      [] w = "pwd" -> <<"p", "w", "d">>
      [] w = "exit" -> <<"e", "x", "i", "t">>
      [] w = "history" -> <<"h", "i", "s", "t", "o", "r", "y">>
      [] w = "!" -> <<"!">>
      [] w = "/p" -> <<"/", "p">>
      [] w = "p*" -> <<"p", "*">>
      [] w = "*" -> <<"*">>
      [] w = "0" -> <<"0">>
      [] w = "L" -> [i \in 1..(MAX_LINE_CHARS - 4) |-> "l"]
      [] OTHER -> <<>>

\* strrchr(w, c) != NULL
HasChar(w, c) == \E i \in 1..Len(CharsOf(w)) : CharsOf(w)[i] = c

\* All command lines of at most MaxWords words.
Lines == UNION {[1..n -> Vocabulary] : n \in 0..MaxWords}

\* The array tokenize returns for a line: its words and the terminator.
ArrayOf(line) == line \o <<NULL>>

\* ------------------------------------------------------------ word arrays

RECURSIVE words_length(_, _)
\* words_length(words): the words before the first NULL, from the pointer.
words_length(arr, base) ==
    IF arr[base + 1] = NULL THEN 0 ELSE 1 + words_length(arr, base + 1)

\* words[k] for the pointer `base'.
WordAt(arr, base, k) == arr[base + k + 1]

\* The stage's words from the pointer up to the first NULL: the argv a
\* spawned program receives.
ArgvOf(arr, base) == SubSeq(arr, base + 1, base + words_length(arr, base))

\* num_pipes(words)
num_pipes(arr) ==
    Cardinality({i \in 0..(words_length(arr, 0) - 1) : WordAt(arr, 0, i) = "|"})

\* split_words(words): every "|" becomes NULL, in place.
split_words(arr) ==
    LET length == words_length(arr, 0)
    IN  [i \in DOMAIN arr |-> IF i <= length /\ arr[i] = "|" THEN NULL ELSE arr[i]]

\* next_pipe(words): the pointer just after the first NULL.
next_pipe(arr, base) == base + words_length(arr, base) + 1

RECURSIVE valid_pipe_loop_no_lt(_, _, _, _)
\* The loop of valid_pipe without the test of "<".
valid_pipe_loop_no_lt(arr, length, i, prev_pipe) ==
    IF WordAt(arr, 0, i) = NULL
    THEN WordAt(arr, 0, i - 1) # "|"
    ELSE IF WordAt(arr, 0, i) = ">" /\ i # length - 2 /\ i # length - 3
         THEN FALSE
         ELSE IF WordAt(arr, 0, i) = "|"
              THEN IF prev_pipe THEN FALSE
                   ELSE valid_pipe_loop_no_lt(arr, length, i + 1, TRUE)
              ELSE valid_pipe_loop_no_lt(arr, length, i + 1, FALSE)

RECURSIVE valid_pipe_loop(_, _, _, _)
\* The while loop of valid_pipe, from C index i with the prev_pipe flag, and
\* the check of the last word after it.
valid_pipe_loop(arr, length, i, prev_pipe) ==
    IF WordAt(arr, 0, i) = NULL
    THEN WordAt(arr, 0, i - 1) # "|"
    ELSE IF WordAt(arr, 0, i) = ">" /\ i # length - 2 /\ i # length - 3
         THEN FALSE
         ELSE IF WordAt(arr, 0, i) = "<" /\ i # 0
              THEN FALSE
              ELSE IF WordAt(arr, 0, i) = "|"
                   THEN IF prev_pipe THEN FALSE
                        ELSE valid_pipe_loop(arr, length, i + 1, TRUE)
                   ELSE valid_pipe_loop(arr, length, i + 1, FALSE)

\* valid_pipe without the test of the first word.
valid_pipe_no_first(arr) ==
    valid_pipe_loop(arr, words_length(arr, 0), 0, FALSE)

\* valid_pipe(words), for a non-empty array.
valid_pipe(arr) ==
    IF WordAt(arr, 0, 0) = "|" THEN FALSE
    ELSE valid_pipe_loop(arr, words_length(arr, 0), 0, FALSE)

\* ------------------------------------------------- pipes and descriptors

\* The connecting pipe pipe_array[2i], pipe_array[2i+1], and the two file
\* funnels pipe_file_in and pipe_file_out.
ConnPipe(i) == [kind |-> "conn", idx |-> i]
InPipe == [kind |-> "in", idx |-> 0]
OutPipe == [kind |-> "out", idx |-> 0]

\* A descriptor is an end of a pipe: p[0] is the read end, p[1] the write end.
RdEnd(p) == [pipe |-> p, end |-> "r"]
WrEnd(p) == [pipe |-> p, end |-> "w"]
\* The standard streams the shell itself was started with.
TTY == [pipe |-> [kind |-> "tty", idx |-> 0], end |-> "rw"]

\* posix_spawn_file_actions_addclose / adddup2
AddClose(fd) == [op |-> "close", fd |-> fd, to |-> 0]
AddDup2(fd, n) == [op |-> "dup2", fd |-> fd, to |-> n]

RECURSIVE ApplyActions(_, _)
\* The descriptor table of a spawned child: the shell's open descriptors,
\* with the file actions performed in the order they were added.
ApplyActions(actions, tbl) ==
    IF actions = <<>> THEN tbl
    ELSE LET a == Head(actions)
             next == IF a.op = "close"
                     THEN [tbl EXCEPT !.held = @ \ {a.fd}]
                     ELSE IF a.fd \notin tbl.held THEN tbl
                     ELSE IF a.to = 0 THEN [tbl EXCEPT !.stdin = a.fd]
                     ELSE [tbl EXCEPT !.stdout = a.fd]
         IN  ApplyActions(Tail(actions), next)

\* ------------------------------------------------------------ redirection

\* setup_redirect_input: the flag, the advanced pointer, the file name and
\* the file actions added.
setup_redirect_input(arr, base) ==
    LET length == words_length(arr, base)
    IN  IF length > 2 /\ HasChar(WordAt(arr, base, 0), "<")
        THEN [redirect_in |-> TRUE,
              base |-> base + 2,
              in_file |-> WordAt(arr, base, 1),
              actions |-> <<AddClose(WrEnd(InPipe)), AddDup2(RdEnd(InPipe), 0)>>]
        ELSE [redirect_in |-> FALSE, base |-> base, in_file |-> NULL,
              actions |-> <<>>]

\* setup_redirect_output: the mode, the array with the ">" words set to
\* NULL, and the file actions added.
setup_redirect_output(arr, base) ==
    LET length == words_length(arr, base)
    IN  IF length > 2 /\ WordAt(arr, base, length - 2) = ">"
        THEN LET app == length > 3 /\ WordAt(arr, base, length - 3) = ">"
                 a1 == [arr EXCEPT ![base + length - 2 + 1] = NULL]
                 a2 == IF app THEN [a1 EXCEPT ![base + length - 3 + 1] = NULL]
                       ELSE a1
             IN  [redirect |-> IF app THEN APPEND ELSE STORE,
                  arr |-> a2,
                  actions |-> <<AddClose(RdEnd(OutPipe)), AddDup2(WrEnd(OutPipe), 1)>>]
        ELSE [redirect |-> NONE, arr |-> arr, actions |-> <<>>]

\* The file name redirect_output opens: words[length + 1], with length the
\* stage's length after stripping, one more for APPEND.
OutputFileName(arr, base, redirect) ==
    LET length == words_length(arr, base) + (IF redirect = APPEND THEN 1 ELSE 0)
    IN  WordAt(arr, base, length + 1)

RECURSIVE UpToNul(_)
\* What fputs writes of a buffer: the bytes before the first NUL.
UpToNul(s) ==
    IF s = <<>> \/ Head(s) = NUL THEN <<>> ELSE <<Head(s)>> \o UpToNul(Tail(s))

RECURSIVE FgetsLen(_, _)
\* The length of what one fgets call returns from the unread data s: up to
\* and including the first newline, at most MAX_LINE_CHARS - 1 bytes.
FgetsLen(s, n) ==
    IF s = <<>> \/ n = MAX_LINE_CHARS - 1 THEN n
    ELSE IF Head(s) = NL THEN n + 1
    ELSE FgetsLen(Tail(s), n + 1)

RECURSIVE CopyLines(_)
\* The fgets/fputs loop over a whole file: what reaches the destination.
CopyLines(s) ==
    IF s = <<>> THEN <<>>
    ELSE LET n == FgetsLen(s, 0)
         IN  UpToNul(SubSeq(s, 1, n)) \o CopyLines(SubSeq(s, n + 1, Len(s)))

\* -------------------------------------------------------- path resolution

\* The directories of the search path (DEFAULT_PATH).
SearchPath == <<"/bin", "/usr/bin">>

\* What the file system holds at a path <<directory, name>>: "none" (no
\* entry), "dir" (an entry that is no regular file), "noexec" (a regular
\* file without execute permission) or "exec".
FsKind(fsys, path) == IF path \in DOMAIN fsys THEN fsys[path] ELSE "none"

RECURSIVE get_full_path_loop(_, _, _, _, _)
get_full_path_loop(program, path, fsys, i, buffer) ==
    IF i > Len(path) THEN [found |-> FALSE, full_path |-> buffer]
    ELSE IF FsKind(fsys, <<path[i], program>>) # "none"
         THEN [found |-> TRUE, full_path |-> <<path[i], program>>]
         ELSE get_full_path_loop(program, path, fsys, i + 1, <<path[i], program>>)

\* get_full_path: the first directory where access(F_OK) finds the name;
\* full_path is left holding the last candidate tried.
get_full_path(program, path, fsys, buffer) ==
    get_full_path_loop(program, path, fsys, 1, buffer)

\* is_executable with access(F_OK) only.
is_executable_exists(fsys, path) == FsKind(fsys, path) # "none"

\* is_executable: stat succeeds, S_ISREG, X_OK.
is_executable(fsys, path) == FsKind(fsys, path) = "exec"

\* Lines 291-305 of execute_external: locate words[0], then check it.
\* "why" is the name the error message carries.
ResolveProgram(word, path, fsys, buffer) ==
    LET got == IF ~HasChar(word, "/")
               THEN get_full_path(word, path, fsys, buffer)
               ELSE [found |-> TRUE, full_path |-> <<"", word>>]
    IN  IF ~got.found
        THEN [ok |-> FALSE, full_path |-> got.full_path, why |-> <<"", word>>]
        ELSE IF ~is_executable(fsys, got.full_path)
             THEN [ok |-> FALSE, full_path |-> got.full_path, why |-> got.full_path]
             ELSE [ok |-> TRUE, full_path |-> got.full_path, why |-> got.full_path]

\* ------------------------------------------------------------- built-ins

\* The names execute_command compares the program with.
IsBuiltin(program) == program \in {"history", "!", "exit", "cd", "pwd"}

RECURSIVE StoredTokens(_)
\* store_command on tokens given by their characters.
StoredTokens(tokens) ==
    IF tokens = <<>> THEN <<"\n">>
    ELSE Head(tokens) \o <<" ">> \o StoredTokens(Tail(tokens))

RECURSIVE StoredLine(_)
\* store_command: each word followed by a space, then a newline.
StoredLine(words) ==
    IF words = <<>> THEN <<"\n">>
    ELSE CharsOf(Head(words)) \o <<" ">> \o StoredLine(Tail(words))

\* --------------------------------------------------- tokenize and history

\* #define WORD_SEPARATORS / SPECIAL_CHARS
WORD_SEPARATORS == {" ", "\t", "\r", "\n"}
SPECIAL_CHARS == {"!", ">", "<", "|"}

\* Every word of the model, and the word that stands for any other string
\* of characters.
AllWords == Vocabulary \cup BuiltinVocabulary \cup GlobVocabulary
            \cup HistoryVocabulary \cup {"0"}
OtherWord == "(other)"

\* The word with the given characters.
WordOf(chars) ==
    IF \E w \in AllWords : CharsOf(w) = chars
    THEN CHOOSE w \in AllWords : CharsOf(w) = chars
    ELSE OtherWord

RECURSIVE strspn(_, _)
\* strspn(s, set): the length of the longest prefix made of characters of
\* the set.
strspn(s, set) ==
    IF s # <<>> /\ Head(s) \in set THEN 1 + strspn(Tail(s), set) ELSE 0

\* strcspn(s, set): the length of the longest prefix with no character of
\* the set.
strcspn(s, set) ==
    LET hits == {i \in 1..Len(s) : s[i] \in set}
    IN  IF hits = {} THEN Len(s)
        ELSE (CHOOSE i \in hits : \A j \in hits : i <= j) - 1

RECURSIVE tokenize(_)
\* tokenize(s, WORD_SEPARATORS, SPECIAL_CHARS): the tokens of a string, as
\* sequences of characters.
tokenize(s) ==
    LET s1 == SubSeq(s, strspn(s, WORD_SEPARATORS) + 1, Len(s))
    IN  IF s1 = <<>> THEN <<>>
        ELSE LET token_length == strcspn(s1, WORD_SEPARATORS)
                 special == strcspn(s1, SPECIAL_CHARS)
                 without_special == IF special = 0 THEN 1 ELSE special
                 n == IF without_special < token_length
                      THEN without_special ELSE token_length
             IN  <<SubSeq(s1, 1, n)>> \o tokenize(SubSeq(s1, n + 1, Len(s1)))

\* The words tokenize returns for a string.
WordsOf(s) == [i \in DOMAIN tokenize(s) |-> WordOf(tokenize(s)[i])]

RECURSIVE TypedLength(_)
\* The fewest characters the words can be typed with: a space only between
\* two words that are no special characters.
TypedLength(words) ==
    IF words = <<>> THEN 0
    ELSE Len(CharsOf(Head(words)))
         + (IF Len(words) > 1 /\ Head(words) \notin SPECIAL_CHARS
               /\ words[2] \notin SPECIAL_CHARS THEN 1 ELSE 0)
         + TypedLength(Tail(words))

\* main, line 133: a line and its newline fit the buffer of fgets.
CanBeTyped(words) == TypedLength(words) + 1 <= MAX_LINE_CHARS - 1

RECURSIVE Chunks(_)
\* last_n_commands, line 592: what the successive fgets calls return of
\* the history file, given as its lines; a line of more than
\* MAX_LINE_CHARS - 1 characters comes in several pieces.
Chunks(lines) ==
    IF lines = <<>> THEN <<>>
    ELSE IF Len(Head(lines)) <= MAX_LINE_CHARS - 1
         THEN <<Head(lines)>> \o Chunks(Tail(lines))
         ELSE <<SubSeq(Head(lines), 1, MAX_LINE_CHARS - 1)>>
              \o Chunks(<<SubSeq(Head(lines), MAX_LINE_CHARS, Len(Head(lines)))>>
                        \o Tail(lines))

\* atoi(word)
atoi(w) == IF w = "0" THEN 0 ELSE 0

\* execute_history, lines 631-635: the number of the line to execute.
HistoryNumber(a, total_lines) ==
    IF WordAt(a, 0, 1) = NULL THEN total_lines - 1 ELSE atoi(WordAt(a, 0, 1))

\* ------------------------------------------------------------------ state

VARIABLES
    pc,           \* where the shell is: "read", "launch", "redirect_input",
                  \* "redirect_input_write", "redirect_output",
                  \* "redirect_output_read", "finish", "wait", "done",
                  \* "crashed" (undefined behaviour ended it), "killed"
                  \* (SIGPIPE), "exited" (the exit built-in)
    line,         \* the words of the line read
    checked,      \* what valid_pipe returned for the line: "valid" or
                  \* "invalid"; "no" while it has not been called
    arr,          \* the word array execute_external works on
    wbase,        \* the `words' pointer, a C index into arr
    pipe_num,     \* num_pipes of the line
    pipe_count,   \* the loop counter of execute_external
    redirect_in,  \* the flags of the current iteration
    redirect_out,
    in_file,      \* the buffer in_file
    full_path,    \* the buffer full_path, <<directory, name>>
    child,        \* the pid posix_spawn stored last; 0 is uninitialised
    created,      \* the pipes created by pipe()
    shfds,        \* the pipe ends open in the shell
    buf,          \* the bytes in each pipe
    procs,        \* the processes started, by pid
    launches,     \* the posix_spawn calls made, in order
    pending,      \* redirect_input: bytes accepted by fputs, not yet in the pipe
    linebuf,      \* redirect_output: the line fgets is assembling
    waited,       \* the pids waitpid returned for
    stderr,       \* the messages written to stderr
    stdout,       \* the exit status lines printed
    builtin,      \* the built-in executed for the line, or NULL
    history,      \* ~/.cowrie_history, a sequence of stored lines
    files,        \* the files of the current directory the shell has opened,
                  \* by name, as they are now
    out_prev,     \* the data of the output file when redirect_output opened it
    fs,           \* the entries of the search path directories the shell
                  \* has looked up, by <<directory, name>>
    closes,       \* the ends of connecting pipes the launch loop has closed
                  \* with close(), in order
    replay,       \* the number of the history line execute_history has
                  \* executed for this line, or -1
    globbed       \* the word array glob_words returned for the line

vars == <<pc, line, checked, arr, wbase, pipe_num, pipe_count, redirect_in, redirect_out,
          in_file, full_path, child, created, shfds, buf, procs, launches,
          pending, linebuf, waited, stderr, stdout, builtin, history, files,
          out_prev, fs, closes, replay, globbed>>

AllPipes == {InPipe, OutPipe} \cup {ConnPipe(i) : i \in 0..MaxWords}

\* A file of the current directory: absent, a regular file with its data,
\* or an entry fopen cannot open.
NoFile == [st |-> "absent", data |-> <<>>]
Denied == [st |-> "denied", data |-> <<>>]
RegularFile(data) == [st |-> "file", data |-> data]

\* The contents a file may start with.
InitialData == {<<"x", NL>>, <<"x", NUL, "x">>}

\* The states the shell may find a file of the current directory in when it
\* first opens it.
FileStates == {NoFile, Denied} \cup {RegularFile(d) : d \in InitialData}

\* The file system is the shell's environment: the state of a file, and of
\* an entry of the search path, is fixed when the shell first looks at it.
NothingSeen == [x \in {} |-> NoFile]

\* The states of the search path: "p" is an executable of /bin, and "q" is
\* anything in each directory.
FileSystems ==
    {[path \in {<<d, n>> : d \in {"/bin", "/usr/bin"}, n \in {"p", "q"}} |->
        IF path[2] = "p"
        THEN (IF path[1] = "/bin" THEN "exec" ELSE "none")
        ELSE IF path[1] = "/bin" THEN k1 ELSE k2] :
        k1 \in {"none", "noexec", "exec"}, k2 \in {"none", "exec"}}

Init ==
    /\ pc = "read"
    /\ line = <<>>
    /\ checked = "no"
    /\ arr = <<NULL>>
    /\ wbase = 0
    /\ pipe_num = 0
    /\ pipe_count = 0
    /\ redirect_in = FALSE
    /\ redirect_out = NONE
    /\ in_file = NULL
    /\ full_path = <<"", "">>
    /\ child = 0
    /\ created = {}
    /\ shfds = {}
    /\ buf = [p \in AllPipes |-> <<>>]
    /\ procs = <<>>
    /\ launches = <<>>
    /\ pending = <<>>
    /\ linebuf = <<>>
    /\ waited = {}
    /\ stderr = <<>>
    /\ stdout = <<>>
    /\ builtin = NULL
    /\ history = <<>>
    /\ files = NothingSeen
    /\ out_prev = <<>>
    /\ fs = NothingSeen
    /\ closes = <<>>
    /\ replay = -1
    /\ globbed = <<NULL>>

\* ------------------------------------------------------- execute_command

\* Lines 167-175: the program word execute_command picks; NULL when the
\* first word holds '<' and the line has at most two words.
ProgramOf(a) ==
    IF ~HasChar(WordAt(a, 0, 0), "<") THEN WordAt(a, 0, 0)
    ELSE IF words_length(a, 0) > 2 THEN WordAt(a, 0, 2)
    ELSE NULL

\* The is_redirect flag without the test of num_pipes.
IsRedirect_no_pipe(a) ==
    \/ HasChar(WordAt(a, 0, 0), "<") /\ words_length(a, 0) > 2
    \/ words_length(a, 0) > 2 /\ WordAt(a, 0, words_length(a, 0) - 2) = ">"

\* Lines 170-183: the is_redirect flag.
IsRedirect(a) ==
    \/ HasChar(WordAt(a, 0, 0), "<") /\ words_length(a, 0) > 2
    \/ words_length(a, 0) > 2 /\ WordAt(a, 0, words_length(a, 0) - 2) = ">"
    \/ num_pipes(a) # 0

\* The characters glob_words looks for.
HasGlobChar(w) ==
    HasChar(w, "*") \/ HasChar(w, "?") \/ HasChar(w, "[") \/ HasChar(w, "~")

\* The names in the current directory.
Directory == {n \in DOMAIN files : files[n].st # "absent"}

RECURSIVE fnmatch(_, _)
\* How glob matches a name against a pattern of letters, '*' and '?'.
fnmatch(pattern, name) ==
    IF pattern = <<>> THEN name = <<>>
    ELSE IF Head(pattern) = "*"
         THEN \/ fnmatch(Tail(pattern), name)
              \/ name # <<>> /\ fnmatch(pattern, Tail(name))
         ELSE /\ name # <<>>
              /\ Head(pattern) = "?" \/ Head(pattern) = Head(name)
              /\ fnmatch(Tail(pattern), Tail(name))

\* The order of two characters in the C locale (main never calls
\* setlocale).
CharBefore(c, d) ==
    LET order == <<"*", "/", "0", "<", ">", "?", "l", "p", "q", "|">>
        At(x) == CHOOSE i \in DOMAIN order : order[i] = x
    IN  At(c) < At(d)

RECURSIVE NameBefore(_, _)
\* strcmp(x, y) < 0 on two names.
NameBefore(x, y) ==
    IF y = <<>> THEN FALSE
    ELSE IF x = <<>> THEN TRUE
    ELSE IF Head(x) = Head(y) THEN NameBefore(Tail(x), Tail(y))
    ELSE CharBefore(Head(x), Head(y))

RECURSIVE SortNames(_)
\* The names of a set in the order glob returns them.
SortNames(S) ==
    IF S = {} THEN <<>>
    ELSE LET first == CHOOSE n \in S :
                        \A m \in S \ {n} : NameBefore(CharsOf(n), CharsOf(m))
         IN  <<first>> \o SortNames(S \ {first})

\* glob(pattern, GLOB_NOCHECK|GLOB_TILDE): the matching names of the
\* directory in order, and the pattern itself when nothing matches.
GlobMatches(pattern, dir) ==
    LET matching == {n \in dir : fnmatch(CharsOf(pattern), CharsOf(n))}
    IN  IF matching = {} THEN <<pattern>> ELSE SortNames(matching)

\* What glob_words comes to when malloc has no memory left for new_words:
\* the stores of lines 654-656 go through a null pointer.
Exhausted == <<>>

RECURSIVE glob_words_loop(_, _, _)
\* The loop of glob_words: `words' is replaced at once, so that the loop
\* goes on at index i + 1 of the new array.
glob_words_loop(a, i, dir) ==
    IF words_length(a, 0) > MaxArray THEN Exhausted
    ELSE IF WordAt(a, 0, i) = NULL THEN a
    ELSE IF HasGlobChar(WordAt(a, 0, i))
         THEN LET length == words_length(a, 0)
                  new_words == SubSeq(a, 1, i) \o GlobMatches(WordAt(a, 0, i), dir)
                               \o SubSeq(a, i + 2, length + 1) \o <<NULL>>
              IN  glob_words_loop(new_words, i + 1, dir)
         ELSE glob_words_loop(a, i + 1, dir)

\* glob_words(words): from index 1 on.
glob_words(a, dir) == glob_words_loop(a, 1, dir)

\* The variables only execute_external changes.
ExternalVars == <<arr, wbase, pipe_num, pipe_count, created, shfds, buf>>
LoopVars == <<redirect_in, redirect_out, in_file, full_path, child, procs,
              launches, pending, linebuf, waited, stdout, files, out_prev, fs,
              closes>>

\* The effect of a return from execute_command before execute_external.
ReturnEarly(w, state, msgs, ran, stored) ==
    /\ pc' = state
    /\ line' = w
    /\ stderr' = stderr \o msgs
    /\ builtin' = ran
    /\ history' = history \o stored
    /\ checked' = "no"
    /\ UNCHANGED ExternalVars

\* no_redirect(program)
NoRedirectMsg(program) == [kind |-> "redirection not permitted", arg |-> <<"", program>>]

\* execute_external, lines 232-259: validation, the connecting pipes and
\* split_words.
EnterExternal(w, a, stored) ==
    /\ line' = w
    /\ builtin' = NULL
    /\ history' = history \o stored
    /\ IF ~valid_pipe(a)
       THEN /\ stderr' = Append(stderr, [kind |-> "invalid pipe", arg |-> <<"", "">>])
            /\ checked' = "invalid"
            /\ pc' = "done"
            /\ UNCHANGED ExternalVars
       ELSE /\ stderr' = stderr
            /\ checked' = "valid"
            /\ pipe_num' = num_pipes(a)
            /\ created' = created \cup {ConnPipe(i) : i \in 0..(num_pipes(a) - 1)}
            /\ shfds' = shfds \cup UNION {{RdEnd(ConnPipe(i)), WrEnd(ConnPipe(i))} :
                                            i \in 0..(num_pipes(a) - 1)}
            /\ arr' = split_words(a)
            /\ wbase' = 0
            /\ pipe_count' = 0
            /\ pc' = "launch"
            /\ buf' = buf

\* Lines 198-219: store_command, glob_words and what follows them.
StoreAndRun(w, a, program, stored) ==
    LET new_words == glob_words(a, Directory)
    IN  /\ globbed' = new_words
        /\ IF new_words = Exhausted
           THEN ReturnEarly(w, "crashed", <<>>, NULL, stored)
           ELSE IF program \in {"exit", "cd", "pwd"}
           THEN IF IsRedirect(a)
                THEN ReturnEarly(w, "done", <<NoRedirectMsg(program)>>, NULL, stored)
                ELSE ReturnEarly(w, IF program = "exit" THEN "exited" ELSE "done",
                                 <<>>, program, stored)
           ELSE EnterExternal(w, new_words, stored)

\* A return from execute_command before glob_words.
ReturnBeforeGlob(w, state, msgs, ran, stored) ==
    /\ ReturnEarly(w, state, msgs, ran, stored)
    /\ globbed' = globbed

\* execute_command on words that call for no replay: a stored line never
\* has `!' for its program, as line 192 returns before store_command.
\* `stored' is what store_command appends for the words.
execute_words(w, stored) ==
    IF w = <<>>
    THEN ReturnBeforeGlob(w, "done", <<>>, NULL, <<>>)
    ELSE LET a == ArrayOf(w)
             program == ProgramOf(a)
         IN  IF program = NULL
             THEN \* strcmp(NULL, ...): undefined behaviour; the shell
                  \* faults, or no comparison matches.
                  \/ ReturnBeforeGlob(w, "crashed", <<>>, NULL, <<>>)
                  \/ StoreAndRun(w, a, program, stored)
             ELSE IF program = "history"
             THEN IF IsRedirect(a)
                  THEN ReturnBeforeGlob(w, "done", <<NoRedirectMsg(program)>>, NULL, stored)
                  ELSE ReturnBeforeGlob(w, "done", <<>>, program, stored)
             ELSE IF program = "!"
             THEN IF IsRedirect(a)
                  THEN ReturnBeforeGlob(w, "done", <<NoRedirectMsg(program)>>, NULL, <<>>)
                  ELSE ReturnBeforeGlob(w, "done", <<>>, program, <<>>)
             ELSE StoreAndRun(w, a, program, stored)

\* execute_history and last_n_commands in EXECUTE mode: the piece of the
\* history file that the fgets call number `number' returns is tokenized
\* and given to execute_command.  Without a history file fp is NULL and
\* fgetc(fp) is undefined behaviour: the shell faults; with an empty one
\* the loop does not run.
execute_history(w) ==
    IF history = <<>>
    THEN /\ replay' = replay
         /\ \/ ReturnBeforeGlob(w, "crashed", <<>>, NULL, <<>>)
            \/ ReturnBeforeGlob(w, "done", <<>>, "!", <<>>)
    ELSE LET total_lines == Len(history)
             number == HistoryNumber(ArrayOf(w), total_lines)
             pieces == Chunks(history)
         IN  IF number >= 0 /\ number < total_lines
             THEN /\ replay' = number
                  /\ execute_words(WordsOf(pieces[number + 1]),
                                   <<StoredTokens(tokenize(pieces[number + 1]))>>)
             ELSE /\ replay' = replay
                  /\ ReturnBeforeGlob(w, "done", <<>>, "!", <<>>)

\* main reads a line and calls execute_command on its words; the action
\* ends where execute_command returns or the launch loop begins.
ReadLine(w) ==
    /\ UNCHANGED LoopVars
    /\ IF w # <<>> /\ ProgramOf(ArrayOf(w)) = "!" /\ ~IsRedirect(ArrayOf(w))
       THEN execute_history(w)
       ELSE /\ replay' = replay
            /\ execute_words(w, <<StoredLine(w)>>)

\* -------------------------------------------------------------- processes

\* The pipe ends a process holds open, its standard streams included.
OpenEnds(pr) == pr.held \cup {pr.stdin, pr.stdout}

Running == {p \in DOMAIN procs : procs[p].st = "running"}

ShellAlive == pc \notin {"crashed", "killed", "exited"}

\* Some descriptor of the read (write) end of the pipe is open somewhere.
HasReader(pipe) ==
    \/ ShellAlive /\ RdEnd(pipe) \in shfds
    \/ \E p \in Running : RdEnd(pipe) \in OpenEnds(procs[p])
HasWriter(pipe) ==
    \/ ShellAlive /\ WrEnd(pipe) \in shfds
    \/ \E p \in Running : WrEnd(pipe) \in OpenEnds(procs[p])

\* WEXITSTATUS of a terminated process: a process killed by a signal has 0.
WEXITSTATUS(pr) == IF pr.st = "exited" THEN pr.code ELSE 0

ShellVars == <<pc, line, checked, arr, wbase, pipe_num, pipe_count, redirect_in,
               redirect_out, in_file, full_path, child, created, shfds,
               launches, pending, linebuf, waited, stderr, stdout, builtin,
               history, files, out_prev, fs, closes, replay, globbed>>

\* A stage process writes one byte into the pipe that is its standard
\* output, when there is room; without a reader it dies of SIGPIPE.  (What
\* a process writes to the terminal is not part of the state.)
ProcWrite(p) ==
    /\ p \in Running
    /\ procs[p].left > 0
    /\ procs[p].stdout # TTY
    /\ LET out == procs[p].stdout
       IN  IF ~HasReader(out.pipe)
           THEN /\ procs' = [procs EXCEPT ![p].st = "killed"]
                /\ buf' = buf
           ELSE /\ Len(buf[out.pipe]) < PipeCap
                /\ \E b \in (IF out.pipe = OutPipe THEN Bytes ELSE {"x"}) :
                     /\ buf' = [buf EXCEPT ![out.pipe] = Append(@, b)]
                     /\ procs' = [procs EXCEPT ![p].left = @ - 1,
                                               ![p].sent = Append(@, b)]
    /\ UNCHANGED ShellVars

\* A stage process reads one byte from the pipe that is its standard input.
ProcRead(p) ==
    /\ p \in Running
    /\ procs[p].stdin # TTY
    /\ buf[procs[p].stdin.pipe] # <<>>
    /\ buf' = [buf EXCEPT ![procs[p].stdin.pipe] = Tail(@)]
    /\ UNCHANGED procs
    /\ UNCHANGED ShellVars

\* A stage process exits, which closes its descriptors.
ProcExit(p) ==
    /\ p \in Running
    /\ \E c \in {0, 1} : procs' = [procs EXCEPT ![p].st = "exited", ![p].code = c]
    /\ UNCHANGED buf
    /\ UNCHANGED ShellVars

\* ------------------------------------------------------ execute_external

\* The loop with < for <=: the last stage is never launched.
loop_condition_strict(count, num) == count < num

\* while (pipe_count <= pipe_num)
loop_condition(count, num) == count <= num

\* The wiring with the stage's own pipe for its standard input.
ConnActions_own_pipe(count, num) ==
    (IF count # num
     THEN <<AddClose(RdEnd(ConnPipe(count))), AddDup2(WrEnd(ConnPipe(count)), 1)>>
     ELSE <<>>)
    \o (IF count # 0 THEN <<AddDup2(RdEnd(ConnPipe(count)), 0)>> ELSE <<>>)

\* Lines 280-289: the file actions that wire a stage to the connecting
\* pipes: standard output to the pipe of its own index unless it is the
\* last stage, standard input from the previous pipe unless it is the first.
ConnActions(count, num) ==
    (IF count # num
     THEN <<AddClose(RdEnd(ConnPipe(count))), AddDup2(WrEnd(ConnPipe(count)), 1)>>
     ELSE <<>>)
    \o (IF count # 0 THEN <<AddDup2(RdEnd(ConnPipe(count - 1)), 0)>> ELSE <<>>)

\* The body of the while loop, lines 262-308: the funnel pipes, the file
\* actions, the search for the program and posix_spawn, which may fail.  A process started has
\* `out' bytes to write to its standard output.
Launch(out) ==
    /\ pc = "launch"
    /\ LET first == pipe_count = 0
           last == pipe_count = pipe_num
           rin == IF first THEN setup_redirect_input(arr, wbase)
                  ELSE [redirect_in |-> FALSE, base |-> wbase,
                        in_file |-> in_file, actions |-> <<>>]
           rout == IF last THEN setup_redirect_output(arr, rin.base)
                   ELSE [redirect |-> NONE, arr |-> arr, actions |-> <<>>]
           newpipes == (IF first THEN {InPipe} ELSE {})
                       \cup (IF last THEN {OutPipe} ELSE {})
           fds == shfds \cup UNION {{RdEnd(q), WrEnd(q)} : q \in newpipes}
           acts == rin.actions \o rout.actions \o ConnActions(pipe_count, pipe_num)
           program == WordAt(rout.arr, rin.base, 0)
           argv == ArgvOf(rout.arr, rin.base)
           tbl == ApplyActions(acts, [stdin |-> TTY, stdout |-> TTY, held |-> fds])
       IN  \E fsys \in FileSystems :
           LET res == ResolveProgram(program, SearchPath, fsys, full_path) IN
           /\ \A x \in DOMAIN fs : x \in DOMAIN fsys /\ fsys[x] = fs[x]
           /\ fs' = [x \in DOMAIN fs \cup {y \in DOMAIN fsys : y[2] = program} |->
                        fsys[x]]
           /\ created' = created \cup newpipes
           /\ shfds' = fds
           /\ wbase' = rin.base
           /\ arr' = rout.arr
           /\ redirect_in' = rin.redirect_in
           /\ redirect_out' = rout.redirect
           /\ in_file' = IF rin.redirect_in THEN rin.in_file ELSE in_file
           /\ full_path' = res.full_path
           /\ IF ~res.ok
              THEN /\ stderr' = Append(stderr, [kind |-> "command not found",
                                                arg |-> res.why])
                   /\ pc' = "done"
                   /\ UNCHANGED <<procs, launches, child>>
              ELSE /\ stderr' = stderr
                   /\ pc' = IF rin.redirect_in THEN "redirect_input"
                            ELSE IF rout.redirect # NONE THEN "redirect_output"
                            ELSE "finish"
                   /\ \E ok \in BOOLEAN :
                        /\ launches' = Append(launches,
                               [stage |-> pipe_count, path |-> res.full_path,
                                argv |-> argv, ok |-> ok])
                        /\ IF ok
                           THEN /\ procs' = Append(procs,
                                      [stage |-> pipe_count, path |-> res.full_path,
                                       argv |-> argv, stdin |-> tbl.stdin,
                                       stdout |-> tbl.stdout, held |-> tbl.held,
                                       st |-> "running", code |-> 0,
                                       left |-> out, sent |-> <<>>])
                                /\ child' = Len(procs) + 1
                           ELSE UNCHANGED <<procs, child>>
    /\ UNCHANGED <<line, checked, pipe_num, pipe_count, buf, pending, linebuf, waited,
                   stdout, builtin, history, closes, replay, globbed, files, out_prev>>

\* The loop body with processes that write at most MaxOut bytes.
LaunchStage == Launch(MaxOut)

\* The states the shell may find the file in, and the directory once it
\* has seen the file in state f.
Found(name) == IF name \in DOMAIN files THEN {files[name]} ELSE FileStates
Seen(name, f) == [n \in DOMAIN files \cup {name} |-> IF n = name THEN f ELSE files[n]]

\* Where the iteration goes after redirect_input.
AfterInput == IF redirect_out # NONE THEN "redirect_output" ELSE "finish"

\* redirect_input, lines 351-360: close the read end, open the file.  With
\* the file missing f_in is NULL and fgets(line, n, NULL) is undefined
\* behaviour: the shell faults, or the loop reads nothing.
RedirectInputOpen ==
    /\ pc = "redirect_input"
    /\ shfds' = shfds \ {RdEnd(InPipe)}
    /\ \E f \in Found(in_file) :
         /\ files' = Seen(in_file, f)
         /\ IF f.st = "file"
            THEN /\ pending' = CopyLines(f.data)
                 /\ stderr' = stderr
                 /\ pc' = "redirect_input_write"
            ELSE /\ pending' = <<>>
                 /\ stderr' = Append(stderr, [kind |-> "fopen", arg |-> <<"", in_file>>])
                 /\ \/ pc' = "crashed"
                    \/ pc' = "redirect_input_write"
    /\ UNCHANGED <<line, checked, arr, wbase, pipe_num, pipe_count, redirect_in,
                   redirect_out, in_file, full_path, child, created, buf, procs,
                   launches, linebuf, waited, stdout, builtin, history, closes, replay, globbed, out_prev, fs>>

\* The bytes reach the pipe: a write blocks while the pipe is full and
\* raises SIGPIPE, which ends the shell, when no read end is open.
RedirectInputWrite ==
    /\ pc = "redirect_input_write"
    /\ pending # <<>>
    /\ IF ~HasReader(InPipe)
       THEN /\ pc' = "killed"
            /\ UNCHANGED <<buf, pending>>
       ELSE /\ Len(buf[InPipe]) < PipeCap
            /\ buf' = [buf EXCEPT ![InPipe] = Append(@, Head(pending))]
            /\ pending' = Tail(pending)
            /\ pc' = pc
    /\ UNCHANGED <<line, checked, arr, wbase, pipe_num, pipe_count, redirect_in,
                   redirect_out, in_file, full_path, child, created, shfds, procs,
                   launches, linebuf, waited, stderr, stdout, builtin, history, closes, replay, globbed,
                   files, out_prev, fs>>

\* fclose(pipe_in), line 372, once everything is written.
RedirectInputClose ==
    /\ pc = "redirect_input_write"
    /\ pending = <<>>
    /\ shfds' = shfds \ {WrEnd(InPipe)}
    /\ pc' = AfterInput
    /\ UNCHANGED <<line, checked, arr, wbase, pipe_num, pipe_count, redirect_in,
                   redirect_out, in_file, full_path, child, created, buf, procs,
                   launches, pending, linebuf, waited, stderr, stdout, builtin,
                   history, closes, replay, globbed, files, out_prev, fs>>

\* The file redirect_output writes.
OutFile == OutputFileName(arr, wbase, redirect_out)

\* redirect_output, lines 377-401: close the write end, open the file with
\* "w" or "a"; when fopen fails the function returns at once.
RedirectOutputOpen ==
    /\ pc = "redirect_output"
    /\ shfds' = shfds \ {WrEnd(OutPipe)}
    /\ linebuf' = <<>>
    /\ \E f \in Found(OutFile) :
         /\ out_prev' = f.data
         /\ IF f.st = "denied"
            THEN /\ stderr' = Append(stderr, [kind |-> "fopen", arg |-> <<"", OutFile>>])
                 /\ files' = Seen(OutFile, f)
                 /\ pc' = "finish"
            ELSE /\ stderr' = stderr
                 /\ files' = Seen(OutFile, IF redirect_out = STORE \/ f.st = "absent"
                                           THEN RegularFile(<<>>) ELSE f)
                 /\ pc' = "redirect_output_read"
    /\ UNCHANGED <<line, checked, arr, wbase, pipe_num, pipe_count, redirect_in,
                   redirect_out, in_file, full_path, child, created, buf, procs,
                   launches, pending, waited, stdout, builtin, history, closes, replay, globbed, fs>>

\* fgets takes a byte from the pipe; a complete line goes to the file with
\* fputs.
RedirectOutputRead ==
    /\ pc = "redirect_output_read"
    /\ buf[OutPipe] # <<>>
    /\ LET b == Head(buf[OutPipe])
           got == Append(linebuf, b)
       IN  /\ buf' = [buf EXCEPT ![OutPipe] = Tail(@)]
           /\ IF b = NL \/ Len(got) = MAX_LINE_CHARS - 1
              THEN /\ files' = [files EXCEPT ![OutFile].data = @ \o UpToNul(got)]
                   /\ linebuf' = <<>>
              ELSE /\ files' = files
                   /\ linebuf' = got
    /\ UNCHANGED <<pc, line, checked, arr, wbase, pipe_num, pipe_count, redirect_in,
                   redirect_out, in_file, full_path, child, created, shfds, procs,
                   launches, pending, waited, stderr, stdout, builtin, history, closes, replay, globbed, out_prev, fs>>

\* End of file on the pipe: the last partial line is written, and both
\* streams are closed (lines 405-411).
RedirectOutputEOF ==
    /\ pc = "redirect_output_read"
    /\ buf[OutPipe] = <<>>
    /\ ~HasWriter(OutPipe)
    /\ files' = [files EXCEPT ![OutFile].data = @ \o UpToNul(linebuf)]
    /\ linebuf' = <<>>
    /\ shfds' = shfds \ {RdEnd(OutPipe)}
    /\ pc' = "finish"
    /\ UNCHANGED <<line, checked, arr, wbase, pipe_num, pipe_count, redirect_in,
                   redirect_out, in_file, full_path, child, created, buf, procs,
                   launches, pending, waited, stderr, stdout, builtin, history, closes, replay, globbed, out_prev, fs>>

\* The closes without that of the read end.
StageCloses_no_read(count, num) ==
    IF count # num THEN <<WrEnd(ConnPipe(count))>> ELSE <<>>

\* Lines 318-326: the ends of connecting pipes the shell closes after it
\* has started stage `count': the read end of the previous pipe unless the
\* stage is the first, then the write end of its own pipe unless it is the
\* last.
StageCloses(count, num) ==
    (IF count # 0 THEN <<RdEnd(ConnPipe(count - 1))>> ELSE <<>>)
    \o (IF count # num THEN <<WrEnd(ConnPipe(count))>> ELSE <<>>)

\* The end of the loop body, lines 318-333: the shell closes its ends of
\* the connecting pipes of this stage and moves to the next stage.
FinishStage ==
    /\ pc = "finish"
    /\ LET done == StageCloses(pipe_count, pipe_num)
       IN  /\ shfds' = shfds \ {done[i] : i \in DOMAIN done}
           /\ closes' = closes \o done
    /\ wbase' = IF pipe_count < pipe_num THEN next_pipe(arr, wbase) ELSE wbase
    /\ pipe_count' = pipe_count + 1
    /\ pc' = IF loop_condition(pipe_count + 1, pipe_num) THEN "launch" ELSE "wait"
    /\ UNCHANGED <<line, checked, arr, pipe_num, redirect_in, redirect_out, in_file,
                   full_path, child, created, buf, procs, launches, pending,
                   linebuf, waited, stderr, stdout, builtin, history, replay, globbed, files,
                   out_prev, fs>>

\* waitpid(child, &exit_status, 0) and the status line, lines 337-346.  An
\* uninitialised child is the pid of no child of the shell: waitpid fails.
WaitLast ==
    /\ pc = "wait"
    /\ IF child = 0
       THEN /\ stderr' = Append(stderr, [kind |-> "waitpid", arg |-> <<"", "">>])
            /\ UNCHANGED <<stdout, waited>>
       ELSE /\ procs[child].st # "running"
            /\ waited' = waited \cup {child}
            /\ stdout' = Append(stdout, [path |-> full_path,
                                         status |-> WEXITSTATUS(procs[child])])
            /\ stderr' = stderr
    /\ pc' = "done"
    /\ UNCHANGED <<line, checked, arr, wbase, pipe_num, pipe_count, redirect_in,
                   redirect_out, in_file, full_path, child, created, shfds, buf,
                   procs, launches, pending, linebuf, builtin, history, closes, replay, globbed, files, out_prev, fs>>

Next ==
    \/ pc = "read" /\ \E w \in Lines : ReadLine(w)
    \/ LaunchStage
    \/ RedirectInputOpen
    \/ RedirectInputWrite
    \/ RedirectInputClose
    \/ RedirectOutputOpen
    \/ RedirectOutputRead
    \/ RedirectOutputEOF
    \/ FinishStage
    \/ WaitLast
    \/ \E p \in DOMAIN procs : ProcWrite(p)
    \/ \E p \in DOMAIN procs : ProcRead(p)
    \/ \E p \in DOMAIN procs : ProcExit(p)

Spec == Init /\ [][Next]_vars

\* The lines that may name a built-in command.
BuiltinLines == UNION {[1..n -> BuiltinVocabulary] : n \in 0..MaxShortWords}

\* The shell reading one line that may name a built-in command.
NextBuiltin ==
    \/ pc = "read" /\ \E w \in BuiltinLines : ReadLine(w)
    \/ LaunchStage
    \/ RedirectInputOpen
    \/ RedirectInputWrite
    \/ RedirectInputClose
    \/ RedirectOutputOpen
    \/ RedirectOutputRead
    \/ RedirectOutputEOF
    \/ FinishStage
    \/ WaitLast
    \/ \E p \in DOMAIN procs : ProcWrite(p)
    \/ \E p \in DOMAIN procs : ProcRead(p)
    \/ \E p \in DOMAIN procs : ProcExit(p)

SpecBuiltin == Init /\ [][NextBuiltin]_vars

\* The lines that may hold a glob pattern.
GlobLines == UNION {[1..n -> GlobVocabulary] : n \in 0..MaxShortWords}

\* The current directories a pattern is matched in: each of the names "p"
\* and "p*" is that of a file or of nothing.
GlobDirectories == [{"p", "p*"} -> {NoFile, RegularFile(<<"x", NL>>)}]

\* The state after construction in a directory with the given files and
\* with the given history file left by earlier runs.
StartWith(dir, hist) ==
    /\ pc = "read"
    /\ line = <<>>
    /\ checked = "no"
    /\ arr = <<NULL>>
    /\ wbase = 0
    /\ pipe_num = 0
    /\ pipe_count = 0
    /\ redirect_in = FALSE
    /\ redirect_out = NONE
    /\ in_file = NULL
    /\ full_path = <<"", "">>
    /\ child = 0
    /\ created = {}
    /\ shfds = {}
    /\ buf = [p \in AllPipes |-> <<>>]
    /\ procs = <<>>
    /\ launches = <<>>
    /\ pending = <<>>
    /\ linebuf = <<>>
    /\ waited = {}
    /\ stderr = <<>>
    /\ stdout = <<>>
    /\ builtin = NULL
    /\ history = hist
    /\ files = dir
    /\ out_prev = <<>>
    /\ fs = NothingSeen
    /\ closes = <<>>
    /\ replay = -1
    /\ globbed = <<NULL>>

\* The shell starts in one of these directories.
InitGlob == \E dir \in GlobDirectories : StartWith(dir, <<>>)

\* The shell reading one line that may hold a glob pattern.
NextGlob ==
    \/ pc = "read" /\ \E w \in GlobLines : ReadLine(w)
    \/ LaunchStage
    \/ RedirectInputOpen
    \/ RedirectInputWrite
    \/ RedirectInputClose
    \/ RedirectOutputOpen
    \/ RedirectOutputRead
    \/ RedirectOutputEOF
    \/ FinishStage
    \/ WaitLast
    \/ \E p \in DOMAIN procs : ProcWrite(p)
    \/ \E p \in DOMAIN procs : ProcRead(p)
    \/ \E p \in DOMAIN procs : ProcExit(p)

SpecGlob == InitGlob /\ [][NextGlob]_vars

\* The lines that may hold the pattern "*".
StarLines == UNION {[1..n -> StarVocabulary] : n \in 0..MaxShortWords}

\* The current directories with files that bear the name of a token: each
\* of the names "|", "<", ">" and "p" is that of a file or of nothing.
TokenDirectories == [{"|", "<", ">", "p"} -> {NoFile, RegularFile(<<"x", NL>>)}]

\* The shell starts in one of these directories.
InitStar == \E dir \in TokenDirectories : StartWith(dir, <<>>)

\* The shell reading one line that may hold the pattern "*".
NextStar ==
    \/ pc = "read" /\ \E w \in StarLines : ReadLine(w)
    \/ LaunchStage
    \/ RedirectInputOpen
    \/ RedirectInputWrite
    \/ RedirectInputClose
    \/ RedirectOutputOpen
    \/ RedirectOutputRead
    \/ RedirectOutputEOF
    \/ FinishStage
    \/ WaitLast
    \/ \E p \in DOMAIN procs : ProcWrite(p)
    \/ \E p \in DOMAIN procs : ProcRead(p)
    \/ \E p \in DOMAIN procs : ProcExit(p)

SpecStar == InitStar /\ [][NextStar]_vars

\* The lines an earlier run of the shell may have read and stored: they fit
\* the buffer of main and name a program.
StorableLines ==
    {l \in UNION {[1..n -> HistoryVocabulary] : n \in 1..MaxShortWords} :
        CanBeTyped(l) /\ ProgramOf(ArrayOf(l)) # NULL}

\* The shell starts with a history file of one line, stored by an earlier
\* run.
InitHist == \E l \in StorableLines : StartWith(NothingSeen, <<StoredLine(l)>>)

\* The lines that replay the history.
ReplayLines == {<<"!">>, <<"!", "0">>}

\* The shell reading one line that replays the history.
NextHist ==
    \/ pc = "read" /\ \E w \in ReplayLines : ReadLine(w)
    \/ LaunchStage
    \/ RedirectInputOpen
    \/ RedirectInputWrite
    \/ RedirectInputClose
    \/ RedirectOutputOpen
    \/ RedirectOutputRead
    \/ RedirectOutputEOF
    \/ FinishStage
    \/ WaitLast
    \/ \E p \in DOMAIN procs : ProcWrite(p)
    \/ \E p \in DOMAIN procs : ProcRead(p)
    \/ \E p \in DOMAIN procs : ProcExit(p)

SpecHist == InitHist /\ [][NextHist]_vars

\* The lines of the runs in which every process is followed to its end.
LiveLines == UNION {[1..n -> Vocabulary] : n \in 0..MaxShortWords}

\* The loop body with programs that write nothing and programs that write
\* more than a pipe holds.
LaunchLive == \E out \in {0, PipeCap + 1} : Launch(out)

\* A stage process comes to its end: it has written all of its output, or
\* it writes to the terminal.
ProcFinish(p) ==
    /\ p \in Running
    /\ procs[p].left = 0 \/ procs[p].stdout = TTY
    /\ ProcExit(p)

\* A step of the shell after it has read the line.
ShellStep ==
    \/ LaunchLive
    \/ RedirectInputOpen
    \/ RedirectInputWrite
    \/ RedirectInputClose
    \/ RedirectOutputOpen
    \/ RedirectOutputRead
    \/ RedirectOutputEOF
    \/ FinishStage
    \/ WaitLast

NextLive ==
    \/ pc = "read" /\ \E w \in LiveLines : ReadLine(w)
    \/ ShellStep
    \/ \E p \in DOMAIN procs : ProcWrite(p)
    \/ \E p \in DOMAIN procs : ProcRead(p)
    \/ \E p \in DOMAIN procs : ProcFinish(p)

\* The shell is a sequential program that goes on whenever its current call
\* can return, and the kernel runs every process that can run: a write
\* that has room or no reader completes, and a process at its end exits.
\* A program need not read its standard input.
LiveSpec ==
    /\ Init
    /\ [][NextLive]_vars
    /\ WF_vars(ShellStep)
    /\ \A p \in 1..MaxShortWords : WF_vars(ProcWrite(p)) /\ WF_vars(ProcFinish(p))

\* ----------------------------------------------------- the line, as typed

\* The positions of a word in a line.
Positions(l, w) == {i \in 1..Len(l) : l[i] = w}

\* The number of stages of a line: one more than its "|" tokens.
StageCount(l) == Cardinality(Positions(l, "|")) + 1

\* The line starts or ends with "|", or has two "|" in a row.
BadPipes(l) ==
    \/ l[1] = "|"
    \/ l[Len(l)] = "|"
    \/ \E i \in 1..(Len(l) - 1) : l[i] = "|" /\ l[i + 1] = "|"

RECURSIVE SplitLine(_)
\* The stages of a line: its words between the "|" tokens.
SplitLine(l) ==
    IF Positions(l, "|") = {} THEN <<l>>
    ELSE LET i == CHOOSE k \in Positions(l, "|") : \A j \in Positions(l, "|") : k <= j
         IN  <<SubSeq(l, 1, i - 1)>> \o SplitLine(SubSeq(l, i + 1, Len(l)))

\* The line carries an input redirection: "<" first, and more than two
\* words in the first stage.
HasInputRedirect(l) == l # <<>> /\ l[1] = "<" /\ Len(SplitLine(l)[1]) > 2

\* The words of stage i (from 0) once an input redirection is taken off.
StageWords(l, i) ==
    LET w == SplitLine(l)[i + 1]
    IN  IF i = 0 /\ HasInputRedirect(l) THEN SubSeq(w, 3, Len(w)) ELSE w

\* The line carries an output redirection: ">" is the last word but one of
\* the last stage, which has more than two words.
HasOutputRedirect(l) ==
    LET w == StageWords(l, StageCount(l) - 1)
    IN  Len(w) > 2 /\ w[Len(w) - 1] = ">"

\* A message of the kind is on stderr.
Reported(kind) == \E i \in DOMAIN stderr : stderr[i].kind = kind

\* The connecting pipes created.
ConnCreated == {q \in created : q.kind = "conn"}

\* The launch loop has run to its end: the shell is at waitpid or past it.
LoopDone == pc = "wait" \/ stdout # <<>> \/ Reported("waitpid")

\* The pids of the processes started for the last stage of the line.
LastStagePids == {p \in DOMAIN procs : procs[p].stage = StageCount(line) - 1}

\* The directories of the search path that hold an executable file w.
ExecDirs(w) ==
    {i \in 1..Len(SearchPath) : FsKind(fs, <<SearchPath[i], w>>) = "exec"}

\* The directories of the search path that hold any entry w.
EntryDirs(w) ==
    {i \in 1..Len(SearchPath) : FsKind(fs, <<SearchPath[i], w>>) # "none"}

\* The smallest element of a non-empty set of numbers.
Least(S) == CHOOSE i \in S : \A j \in S : i <= j

\* The words a stage hands to its program: the stage without the input
\* redirection, and without the "> file" or "> > file" that ends the last
\* stage.
ExpectedArgv(l, i) ==
    LET w == StageWords(l, i)
        n == Len(w)
    IN  IF i = StageCount(l) - 1 /\ HasOutputRedirect(l)
        THEN IF n > 3 /\ w[n - 2] = ">" THEN SubSeq(w, 1, n - 3)
             ELSE SubSeq(w, 1, n - 2)
        ELSE w

\* The last stage ends with "> > file".
HasAppend(l) ==
    LET w == StageWords(l, StageCount(l) - 1)
    IN  HasOutputRedirect(l) /\ w[Len(w) - 2] = ">"

\* ----------------------------------------------------------------- claims

C3_Original ==
    checked = "valid" =>
        /\ waited \subseteq LastStagePids
        /\ \A k \in DOMAIN stdout :
             \E p \in LastStagePids :
                /\ procs[p].st = "exited"
                /\ stdout[k].path = procs[p].path
                /\ stdout[k].status = procs[p].code

\* C4: every process of a launched pipeline of N stages is wired by its
\* stage i: standard output to the write end of connecting pipe i when
\* i < N - 1, standard input from the read end of connecting pipe i - 1
\* when i > 0; stage 0 reads the terminal, or the input funnel when the
\* line has an input redirection; stage N - 1 writes the terminal, or the
\* output funnel when the line has an output redirection.
C4_StageWiring ==
    checked = "valid" =>
        \A p \in DOMAIN procs :
            LET i == procs[p].stage
                N == StageCount(line)
            IN  /\ i < N - 1 => procs[p].stdout = WrEnd(ConnPipe(i))
                /\ i > 0 => procs[p].stdin = RdEnd(ConnPipe(i - 1))
                /\ i = 0 => procs[p].stdin =
                              IF HasInputRedirect(line) THEN RdEnd(InPipe) ELSE TTY
                /\ i = N - 1 => procs[p].stdout =
                              IF HasOutputRedirect(line) THEN WrEnd(OutPipe) ELSE TTY

\* Both stages of "p | p > q" run: the first writes connecting pipe 0, the
\* second reads it and writes the output funnel.
C4_Witness ==
    /\ line = <<"p", "|", "p", ">", "q">>
    /\ Len(procs) = 2
    /\ procs[1].stdin = TTY
    /\ procs[1].stdout = WrEnd(ConnPipe(0))
    /\ procs[2].stdin = RdEnd(ConnPipe(0))
    /\ procs[2].stdout = WrEnd(OutPipe)

\* The state part of C5.
C5_State ==
    /\ \A k \in DOMAIN launches :
         LET w == launches[k].argv[1]
         IN  /\ EntryDirs(w) # {}
             /\ launches[k].path = <<SearchPath[Least(EntryDirs(w))], w>>
             /\ FsKind(fs, launches[k].path) = "exec"
    /\ Reported("command not found") =>
         /\ pc = "done"
         /\ waited = {}
         /\ stdout = <<>>
         /\ Len(launches) = pipe_count
         /\ \A k \in DOMAIN launches : launches[k].stage < pipe_count
         /\ LET w == StageWords(line, pipe_count)[1]
            IN  \/ EntryDirs(w) = {}
                \/ FsKind(fs, <<SearchPath[Least(EntryDirs(w))], w>>) # "exec"

\* C5: a stage is started only with a program found and executable; when
\* the program of stage k is not found or is no regular executable file,
\* command-not-found is reported and the line is abandoned: stages 0..k-1
\* have been started and no other, the shell waits on nothing and prints
\* no status, and the step that abandons the line leaves every process
\* started as it is.
C5_NotFoundAbandons ==
    /\ []C5_State
    /\ [][(pc = "launch" /\ pc' = "done") =>
            /\ Reported("command not found")'
            /\ procs' = procs
            /\ launches' = launches]_vars

\* "p | q | p" with q not to be found: stage 0 runs on, nothing follows.
C5_Witness ==
    /\ line = <<"p", "|", "q", "|", "p">>
    /\ Reported("command not found")
    /\ pc = "done"
    /\ Len(procs) = 1
    /\ procs[1].st = "running"
    /\ pipe_count = 1

\* C6 (as claimed): a program is started from the first directory of the
\* search path that holds an executable file of its name, and
\* command-not-found is reported only for a name no directory holds an
\* executable file of.
C6_Original ==
    /\ \A k \in DOMAIN launches :
         LET w == launches[k].argv[1]
         IN  /\ ExecDirs(w) # {}
             /\ launches[k].path = <<SearchPath[Least(ExecDirs(w))], w>>
    /\ \A i \in DOMAIN stderr :
         stderr[i].kind = "command not found" => ExecDirs(stderr[i].arg[2]) = {}

\* C7 (as claimed): a line passes validation only if every ">" is at index
\* length-2 or length-3 of its own stage; a line with a ">" elsewhere is
\* rejected and starts no process.
C7_Original ==
    (checked # "no" /\ \E i \in 1..StageCount(line) :
                          LET w == SplitLine(line)[i]
                          IN  \E j \in 1..Len(w) :
                                 w[j] = ">" /\ j - 1 \notin {Len(w) - 2, Len(w) - 3})
    => (checked = "invalid" /\ procs = <<>> /\ launches = <<>>)

\* The line has a ">" that is neither the last word but one nor the one
\* before it.
GtOutOfPlace(l) ==
    \E j \in Positions(l, ">") : j - 1 \notin {Len(l) - 2, Len(l) - 3}

C9_Original ==
    checked = "valid" =>
        \A k \in {j \in DOMAIN launches : launches[j].ok} :
            /\ "<" \notin {launches[k].argv[j] : j \in DOMAIN launches[k].argv}
            /\ ">" \notin {launches[k].argv[j] : j \in DOMAIN launches[k].argv}
            /\ launches[k].argv = ExpectedArgv(line, launches[k].stage)

\* C10 (as claimed): when the status line is printed for a line whose last
\* stage ends with "> file" or "> > file", the file named by the last word
\* holds what the last stage wrote to its standard output, after nothing
\* ("> file") or after what it held before ("> > file").
C10_Original ==
    (checked = "valid" /\ stdout # <<>> /\ HasOutputRedirect(line)
     /\ line[Len(line)] \in DOMAIN files
     /\ files[line[Len(line)]].st = "file") =>
        \A p \in LastStagePids :
            files[line[Len(line)]].data =
                (IF HasAppend(line) THEN out_prev ELSE <<>>) \o procs[p].sent

\* The ends of the connecting pipes of a line of N stages, in the order the
\* launch loop comes to them: for stage i, the read end of pipe i - 1, then
\* the write end of pipe i.
ConnEndsInOrder(N) ==
    LET EndsOf(i) == (IF i > 0 THEN <<RdEnd(ConnPipe(i - 1))>> ELSE <<>>)
                     \o (IF i < N - 1 THEN <<WrEnd(ConnPipe(i))>> ELSE <<>>)
        F[i \in 0..N] == IF i = N THEN <<>> ELSE EndsOf(i) \o F[i + 1]
    IN  F[0]

\* The ends of connecting pipes.
ConnEnds == {e \in shfds : e.pipe.kind = "conn"}

ShellWaitsOnStage ==
    \/ /\ pc = "redirect_input_write"
       /\ pending # <<>>
       /\ HasReader(InPipe)
       /\ Len(buf[InPipe]) >= PipeCap
    \/ /\ pc = "redirect_output_read"
       /\ buf[OutPipe] = <<>>
       /\ HasWriter(OutPipe)

\* C13 (as claimed): between the reading of the line and the final wait the
\* shell is in no operation whose completion depends on the progress of a
\* stage, whatever the size of the files and the capacity of the pipes,
\* redirections included.
C13_Original == ~ShellWaitsOnStage

\* C14 (as claimed): a process started for a stage holds no open end of a
\* connecting pipe other than the ends that are its standard input and its
\* standard output.
C14_Original ==
    \A p \in DOMAIN procs :
        \A e \in procs[p].held :
            e.pipe.kind = "conn" => e \in {procs[p].stdin, procs[p].stdout}

\* redirect_input has tried to open the source file of the line and fopen
\* has failed.
InputOpenFailed ==
    /\ redirect_in
    /\ pc \notin {"launch", "redirect_input"}
    /\ Reported("fopen")
    /\ stderr[Len(stderr)].arg = <<"", in_file>>
    /\ pc \in {"crashed", "redirect_input_write"}

\* C16 (as claimed): when the source file of an input redirection cannot be
\* opened the shell reports the error and stays alive to read the next
\* line.
C16_Original == InputOpenFailed => pc # "crashed"

\* The built-in commands.
BuiltinNames == {"cd", "pwd", "exit", "history", "!"}

\* The program a line names: its first word, or its third when the line
\* starts with "< file"; NULL when "<" is followed by no program.
TypedProgram(l) ==
    IF l[1] # "<" THEN l[1]
    ELSE IF Len(l) > 2 THEN l[3]
    ELSE NULL

\* The line carries an input redirection prefix, an output redirection or a
\* pipe token.
CarriesRedirection(l) ==
    \/ Len(l) > 2 /\ l[1] = "<"
    \/ Len(l) > 2 /\ l[Len(l) - 1] = ">"
    \/ Positions(l, "|") # {}

\* C11: for a line that names a built-in command and carries an input
\* redirection prefix, an output redirection or a pipe token, the shell
\* reports that redirection is not permitted, naming the built-in, and
\* returns: the built-in is not executed, no process is started, no pipe is
\* created and no file is opened.
C11_BuiltinRedirectRefused ==
    (pc # "read" /\ line # <<>> /\ TypedProgram(line) \in BuiltinNames
     /\ CarriesRedirection(line)) =>
        /\ stderr = <<[kind |-> "redirection not permitted",
                       arg |-> <<"", TypedProgram(line)>>]>>
        /\ builtin = NULL
        /\ pc = "done"
        /\ procs = <<>>
        /\ launches = <<>>
        /\ created = {}
        /\ files = NothingSeen

\* "< p cd" has been refused.
C11_Witness ==
    /\ line = <<"<", "p", "cd">>
    /\ pc = "done"
    /\ Reported("redirection not permitted")
    /\ builtin = NULL

\* The line breaks a rule on the place of "|", "<" or ">".
PlacementViolation(l) ==
    \/ BadPipes(l)
    \/ \E j \in Positions(l, "<") : j # 1
    \/ GtOutOfPlace(l)

\* C12 (as claimed): the validation comes before the built-in commands: a
\* line that breaks a rule on the place of "|", "<" or ">" and names a
\* built-in command does not execute it.
C12_Original ==
    (pc # "read" /\ line # <<>> /\ TypedProgram(line) \in BuiltinNames
     /\ PlacementViolation(line)) =>
        builtin = NULL

\* execute_command has returned, or is about to launch the first stage: no
\* file of the directory has been opened since the line was read.
AtDispatch == pc # "read" /\ (checked # "valid" \/ (pc = "launch" /\ pipe_count = 0))

RECURSIVE ExpandEach(_, _)
\* Each word that holds a glob character replaced by its matches, or kept
\* when nothing matches; the other words kept.
ExpandEach(l, dir) ==
    IF l = <<>> THEN <<>>
    ELSE (IF HasGlobChar(Head(l)) THEN GlobMatches(Head(l), dir) ELSE <<Head(l)>>)
         \o ExpandEach(Tail(l), dir)

\* The expansion of a line: that of its words from index 1 on.
ExpectedExpansion(l, dir) == <<Head(l)>> \o ExpandEach(Tail(l), dir)

\* C17 (as claimed): glob expansion replaces every word at index 1 or more
\* that holds one of * ? [ ~ by its matches, in place and in the order of
\* the matcher, or keeps it when nothing matches; the other words stay in
\* their order and no word is lost, with several patterns in the line too.
C17_Original ==
    (AtDispatch /\ line # <<>> /\ TypedProgram(line) # NULL) =>
        /\ pc # "crashed"
        /\ SubSeq(globbed, 1, words_length(globbed, 0))
             = ExpectedExpansion(line, Directory)

\* C18 (as claimed): the program name of a stage is never expanded: every
\* program started is called by the first word of its stage as typed, after
\* a "< file" prefix and after "|" too.
C18_Original ==
    checked = "valid" =>
        \A k \in DOMAIN launches :
            launches[k].argv[1] = StageWords(line, launches[k].stage)[1]

\* C19 (as claimed): when "! n" replays the entry that store_command wrote
\* for the words W of a line read earlier, the stored text is tokenized to
\* exactly W and these words are what execute_command runs on.
C19_Original ==
    replay >= 0 =>
        \A l \in StorableLines :
            history[replay + 1] = StoredLine(l) => line = l

\* C15 (as claimed): when the program of a stage after the first is not
\* found, the processes already started for the earlier stages all come to
\* an end, by themselves or by a broken pipe; none stays blocked on a write
\* to a pipe.
C15_Original ==
    (pc = "done" /\ Reported("command not found") /\ procs # <<>>) ~> (Running = {})

\* C21 (as claimed): once redirect_input has opened the source file of an
\* input redirection, the shell writes the whole of it to stage 0 and
\* execute_external comes to its final wait and returns, whatever the size
\* of the file and the capacity of the pipes, also when stage 0 writes to a
\* stage that is not started yet.
C21_Original ==
    (pc = "redirect_input_write" /\ in_file \in DOMAIN files
     /\ files[in_file].st = "file" /\ procs # <<>>) ~> (pc = "done")

\* C22 (as claimed): when execute_external has returned, with a status
\* line, with "command not found" or after a file that could not be opened,
\* the shell holds no end of a pipe that execute_external created.
C22_Original ==
    (pc = "done" /\ checked = "valid" /\ TypedProgram(line) # NULL) => shfds = {}

\* C23 (as claimed): for every line of one word or more, execute_command
\* has a program name when it compares it with the names of the built-in
\* commands, for the lines "<" and "< file" too.
C23_Original ==
    (pc # "read" /\ line # <<>>) => ProgramOf(ArrayOf(line)) # NULL

\* The words of the array glob_words returned.
GlobbedWords == SubSeq(globbed, 1, words_length(globbed, 0))

\* C24 (as claimed): the words that glob expansion brings in are arguments
\* only: whatever the names of the files of the directory, "|", "<" and ">"
\* among them, the expanded line has as many stages as the line read and
\* the same input and output redirections.
C24_Original ==
    (AtDispatch /\ line # <<>> /\ TypedProgram(line) # NULL /\ pc # "crashed") =>
        /\ StageCount(GlobbedWords) = StageCount(line)
        /\ HasInputRedirect(GlobbedWords) = HasInputRedirect(line)
        /\ HasOutputRedirect(GlobbedWords) = HasOutputRedirect(line)

====
